---- MODULE Spec2Model ----
(***************************************************************************)
(* Model of crates/zed/src/reliability.rs: the process-wide panic hook     *)
(* (init_panic_hook) and the main-thread hang monitor                      *)
(* (monitor_main_thread_hangs).  The two halves share the release channel  *)
(* and the process and nothing else: PanicSpec runs the panic hook in one  *)
(* process, RestartSpec in successive processes, BuilderSpec runs the pure *)
(* part of the record builder, HangSpec the hang monitor.                  *)
(***************************************************************************)
EXTENDS Integers, Sequences, FiniteSets, TLC

(***************************************************************************)
(* Bounds of the model.                                                    *)
(***************************************************************************)
NThreads == 2        \* threads of one process that may panic
MaxRuns == 2         \* successive runs of the process (restarts)
MaxTime == 2         \* the wall clock runs over 0..MaxTime ticks
TicksPerSec == 2     \* clock ticks in one second of the file-name timestamp
MaxFrames == 3       \* longest capture drawn for the record builder alone
HookFrames == 1      \* longest capture drawn inside a run of the whole hook

Threads == 1..NThreads

None == "None"

ReleaseChannels == {"Dev", "Nightly", "Preview", "Stable"}

\* The symbol names a capture may hold; the marker is the literal of line 75.
Marker == "rust_begin_unwind"
FrameNames == {"core::panicking::panic_fmt", Marker, "zed::main"}

RECURSIVE SeqsUpTo(_, _)
SeqsUpTo(S, n) ==
    IF n = 0 THEN {<<>>}
    ELSE LET shorter == SeqsUpTo(S, n - 1)
         IN  shorter \cup {Append(s, x) : s \in {q \in shorter : Len(q) = n - 1}, x \in S}

\* What info.payload() may hold: its dynamic type and, for the two string
\* types, its text.
Payloads ==
    {[type |-> "&str", text |-> "boom"],
     [type |-> "String", text |-> "boom"],
     [type |-> "String", text |-> "oops"],
     [type |-> "i32", text |-> None]}

\* The payloads drawn inside a run of the whole hook: one string, one not.
HookPayloads ==
    {[type |-> "&str", text |-> "boom"],
     [type |-> "i32", text |-> None]}

\* thread.name() of each thread: thread 1 is named, the others are not.
ThreadNameOf(t) == IF t = 1 THEN "worker-3" ELSE None

\* What one symbol of a captured frame resolves to: a name, or no name.
Symbols == FrameNames \cup {None}

\* The symbols Backtrace::new() may resolve, innermost frame first.
SymbolCaptures == SeqsUpTo(Symbols, MaxFrames)
HookSymbolCaptures == SeqsUpTo(Symbols, HookFrames)

VARIABLES
    RELEASE_CHANNEL,   \* *release_channel::RELEASE_CHANNEL, fixed by the build
    is_pty,            \* line 24: stdout_is_a_pty() when the hook was installed
    PANIC_COUNT,       \* line 17: the AtomicU32
    pc,                \* per thread: where it is in the hook ("running": not in it)
    hook,              \* per thread: the locals of its hook invocation
    process,           \* "running", "exited" (process::exit) or "aborted"
    exit_code,         \* the status passed to process::exit, None before
    stderr,            \* what eprintln! printed in this run
    log,               \* what log::error! / log_err() logged in this run
    file_ops,          \* the file operations of this run, in order
    files,             \* the logs directory: file name -> lines, kept across runs
    now,               \* the wall clock, in ticks
    run                \* number of the current process run (the session)

VARIABLES
    info,              \* record builder alone: the payload of the panic
    thread,            \* record builder alone: thread.name(), None when unnamed
    symbols,           \* record builder alone: the symbols of the capture
    built              \* record builder alone: the fields built from them

builderVars == <<info, thread, symbols, built>>

VARIABLES
    mpc,               \* main thread: where it is in monitor_main_thread_hangs
    bt,                \* line 168: the frames in BACKTRACE
    bt_capacity,       \* line 168: the capacity of BACKTRACE's Vec
    bt_lock,           \* line 168: who holds BACKTRACE's Mutex, None when free
    BACKTRACE_SENDER,  \* line 169: the OnceLock, Nothing until set
    backtrace_rx,      \* line 167: "none", "alive" or "dropped"
    notifications,     \* line 167: notifications queued in the backtrace channel
    disposition,       \* what the process does on SIGUSR2
    sigaction_result,  \* line 199: "none", "ok" or "error"
    pending,           \* SIGUSR2 is pending for the main thread
    blocked,           \* SIGUSR2 is blocked in the main thread (the handler's mask)
    tx,                \* line 214: the heartbeat sender: "none", "alive", "dropped"
    rx,                \* line 214: the heartbeat receiver: "none", "alive", "dropped"
    num_messages,      \* line 214: heartbeats in the channel
    parked,            \* line 214: the sender is parked (its own slot is used)
    wpc,               \* the watchdog task's position
    intervals,         \* sleep intervals the watchdog has completed
    signal_interval,   \* the interval in which pthread_kill was called, if it was
    signals_sent,      \* calls of pthread_kill
    hpc,               \* the signal handler's position, "none" when not running
    handler_runs,      \* times handle_sigusr2 was entered
    stack_depth,       \* frames on the interrupted stack
    walk,              \* the frame trace_unsynchronized visits next
    sent,              \* line 194: the result of the handler's send
    drained,           \* the drain task has received at least once
    drained_every_interval  \* at every push so far the drain task was alive and had emptied the channel

hangVars == <<mpc, bt, bt_capacity, bt_lock, BACKTRACE_SENDER, backtrace_rx,
              notifications, disposition, sigaction_result, pending, blocked, tx, rx,
              num_messages, parked, wpc, intervals, signal_interval, signals_sent,
              hpc, handler_runs, stack_depth, walk, sent, drained,
              drained_every_interval>>

nonPanicVars == <<builderVars, hangVars>>

panicVars == <<RELEASE_CHANNEL, is_pty, PANIC_COUNT, pc, hook, process, exit_code,
               stderr, log, file_ops, files, now, run>>

\* A value that is not there yet (an unset local, a Rust None) is the empty
\* sequence; Some(x) is the one-element sequence.
Some(x) == <<x>>
Nothing == <<>>

NoLocals ==
    [prior_panic_count |-> Nothing, thread_name |-> None, payload |-> None, backtrace |-> <<>>, panic_data |-> Nothing,
     panic_data_json |-> Nothing, timestamp |-> Nothing, panic_file |-> "none"]

\* The names "zed-{timestamp}.panic" can take: one per second of the clock.
FileNames == 0..(MaxTime \div TicksPerSec)
NoFile == [exists |-> FALSE, lines |-> <<>>]

\* Everything of the hook's state but the release channel.
HookStateInit ==
    /\ PANIC_COUNT = 0
    /\ pc = [t \in Threads |-> "running"]
    /\ hook = [t \in Threads |-> NoLocals]
    /\ process = "running"
    /\ exit_code = Nothing
    /\ stderr = <<>>
    /\ log = <<>>
    /\ file_ops = <<>>
    /\ files = [n \in FileNames |-> NoFile]
    /\ now = 0
    /\ run = 1

PanicInit ==
    /\ RELEASE_CHANNEL \in ReleaseChannels
    /\ is_pty \in BOOLEAN
    /\ HookStateInit

(***************************************************************************)
(* The pure parts of the hook.                                             *)
(***************************************************************************)

\* Mutant of Suppressed: the first invocation is suppressed too.
Suppressed_FirstToo(prior_panic_count) == prior_panic_count >= 0

\* Mutant of Suppressed: the first two invocations pass.
Suppressed_SecondPasses(prior_panic_count) == prior_panic_count > 1

\* Line 28: the invocations that are suppressed.
Suppressed(prior_panic_count) == prior_panic_count > 0

\* Line 36: thread.name().unwrap_or("<unnamed>").
ThreadNameOrDefault(name) == IF name = None THEN "<unnamed>" ELSE name

\* Mutant of PayloadMessage: the downcast to String is missing.
PayloadMessage_StrOnly(p) ==
    IF p.type = "&str" THEN p.text ELSE "Box<Any>"

\* Lines 38-43: the payload downcast to &str, else to String, else the
\* placeholder.
PayloadMessage(p) ==
    IF p.type = "&str" THEN p.text
    ELSE IF p.type = "String" THEN p.text
    ELSE "Box<Any>"

\* Lines 61-70: the names of the symbols that have one, in order.
SymbolNames(syms) == SelectSeq(syms, LAMBDA n : n # None)

\* Lines 73-75: position() of the first name equal to the marker (0: none).
MarkerPosition(names) ==
    IF \E i \in 1..Len(names) : names[i] = Marker
    THEN CHOOSE i \in 1..Len(names) :
            /\ names[i] = Marker
            /\ \A j \in 1..(i - 1) : names[j] # Marker
    ELSE 0

\* Mutant of StripUnwind: drain(0..ix), which keeps the marker frame.
StripUnwind_KeepMarker(names) ==
    LET ix == MarkerPosition(names)
    IN  IF ix = 0 THEN names ELSE SubSeq(names, ix, Len(names))

\* Lines 73-78: drain(0..=ix) when the marker is found.
StripUnwind(names) ==
    LET ix == MarkerPosition(names)
    IN  IF ix = 0 THEN names ELSE SubSeq(names, ix + 1, Len(names))

\* Line 57: the status the parent sees for process::exit(code), one byte.
ExitStatus(code) == code % 256

\* Lines 98 and 103: the two serializations of a record.
SerdeToStringPretty(data) == [format |-> "pretty", of |-> data]
SerdeToString(data) == [format |-> "compact", of |-> data]

\* Mutant of PersistToFile: the file is written with a terminal too.
PersistToFile_Always(pty) == TRUE

\* Line 102: the record is persisted when stdout was no terminal.
PersistToFile(pty) == ~pty

\* Line 104: format("%Y_%m_%d %H_%M_%S"), the clock cut to whole seconds.
FormatTimestamp(t) == t \div TicksPerSec

(***************************************************************************)
(* The panic hook, lines 26-119, one action per step of an invocation.     *)
(***************************************************************************)

Alive == process = "running"

\* A thread panics: the runtime calls the hook (line 26).
Panic(t) ==
    /\ Alive
    /\ UNCHANGED nonPanicVars
    /\ pc[t] = "running"
    /\ pc' = [pc EXCEPT ![t] = "L27"]
    /\ UNCHANGED <<RELEASE_CHANNEL, is_pty, PANIC_COUNT, hook, process, exit_code,
                   stderr, log, file_ops, files, now, run>>

\* Lines 27-28: the atomic fetch_add and the test of the value it returned.
\* A thread enters the hook once and never leaves it, so the u32 counts at
\* most the threads of the process and does not wrap.
FetchAdd(t) ==
    /\ Alive
    /\ UNCHANGED nonPanicVars
    /\ pc[t] = "L27"
    /\ PANIC_COUNT' = PANIC_COUNT + 1
    /\ hook' = [hook EXCEPT ![t].prior_panic_count = Some(PANIC_COUNT)]
    /\ pc' = [pc EXCEPT ![t] = IF Suppressed(PANIC_COUNT) THEN "L30" ELSE "L35"]
    /\ UNCHANGED <<RELEASE_CHANNEL, is_pty, process, exit_code, stderr, log,
                   file_ops, files, now, run>>

\* Lines 30-32: one turn of the yield loop.
YieldNow(t) ==
    /\ Alive
    /\ UNCHANGED nonPanicVars
    /\ pc[t] = "L30"
    /\ pc' = [pc EXCEPT ![t] = "L30"]
    /\ UNCHANGED <<RELEASE_CHANNEL, is_pty, PANIC_COUNT, hook, process, exit_code,
                   stderr, log, file_ops, files, now, run>>

\* Lines 35-43: thread name and message, from the payload the panic carries.
Extract(t) ==
    /\ Alive
    /\ UNCHANGED nonPanicVars
    /\ pc[t] = "L35"
    /\ \E p \in HookPayloads :
          hook' = [hook EXCEPT ![t].thread_name = ThreadNameOrDefault(ThreadNameOf(t)),
                               ![t].payload = PayloadMessage(p)]
    /\ pc' = [pc EXCEPT ![t] = "L45"]
    /\ UNCHANGED <<RELEASE_CHANNEL, is_pty, PANIC_COUNT, process, exit_code, stderr,
                   log, file_ops, files, now, run>>

\* Lines 45-58: on Dev, print to standard error and exit(-1).
\* info.location() is always Some (std documents it so), the unwrap succeeds.
DevReport(t) ==
    /\ Alive
    /\ UNCHANGED nonPanicVars
    /\ pc[t] = "L45"
    /\ RELEASE_CHANNEL = "Dev"
    /\ stderr' = Append(stderr, [thread |-> hook[t].thread_name,
                                 payload |-> hook[t].payload])
    /\ process' = "exited"
    /\ exit_code' = Some(ExitStatus(-1))
    /\ pc' = [pc EXCEPT ![t] = "L57"]
    /\ UNCHANGED <<RELEASE_CHANNEL, is_pty, PANIC_COUNT, hook, log, file_ops, files,
                   now, run>>

\* Lines 60-78: capture the symbol names and strip the panic machinery.
Capture(t) ==
    /\ Alive
    /\ UNCHANGED nonPanicVars
    /\ pc[t] = "L45"
    /\ RELEASE_CHANNEL # "Dev"
    /\ \E syms \in HookSymbolCaptures :
          hook' = [hook EXCEPT ![t].backtrace = StripUnwind(SymbolNames(syms))]
    /\ pc' = [pc EXCEPT ![t] = "L80"]
    /\ UNCHANGED <<RELEASE_CHANNEL, is_pty, PANIC_COUNT, process, exit_code, stderr,
                   log, file_ops, files, now, run>>

\* Lines 80-96: the record.  Only the fields that vary in the model are kept:
\* session_id is the run, panicked_on the clock.
Build(t) ==
    /\ Alive
    /\ UNCHANGED nonPanicVars
    /\ pc[t] = "L80"
    /\ hook' = [hook EXCEPT ![t].panic_data =
                  Some([thread |-> hook[t].thread_name,
                        payload |-> hook[t].payload,
                        panicked_on |-> now,
                        backtrace |-> hook[t].backtrace,
                        session_id |-> run])]
    /\ pc' = [pc EXCEPT ![t] = "L98"]
    /\ UNCHANGED <<RELEASE_CHANNEL, is_pty, PANIC_COUNT, process, exit_code, stderr,
                   log, file_ops, files, now, run>>

\* Lines 98-100: log the pretty form, or the serialization error.
LogPretty(t) ==
    /\ Alive
    /\ UNCHANGED nonPanicVars
    /\ pc[t] = "L98"
    /\ \E ok \in BOOLEAN :
          log' = Append(log, IF ok THEN "panic_data" ELSE "to_string_pretty error")
    /\ pc' = [pc EXCEPT ![t] = "L102"]
    /\ UNCHANGED <<RELEASE_CHANNEL, is_pty, PANIC_COUNT, hook, process, exit_code,
                   stderr, file_ops, files, now, run>>

\* Lines 102-103: with a terminal nothing is persisted; without one the
\* record is serialized, and an error of that is logged.
Serialize(t) ==
    /\ Alive
    /\ UNCHANGED nonPanicVars
    /\ pc[t] = "L102"
    /\ IF ~PersistToFile(is_pty)
       THEN /\ pc' = [pc EXCEPT ![t] = "L118"]
            /\ UNCHANGED <<hook, log>>
       ELSE \E ok \in BOOLEAN :
               IF ok
               THEN /\ hook' = [hook EXCEPT ![t].panic_data_json =
                                   Some(SerdeToString(hook[t].panic_data[1]))]
                    /\ pc' = [pc EXCEPT ![t] = "L104"]
                    /\ UNCHANGED log
               ELSE /\ log' = Append(log, "to_string error")
                    /\ pc' = [pc EXCEPT ![t] = "L118"]
                    /\ UNCHANGED hook
    /\ UNCHANGED <<RELEASE_CHANNEL, is_pty, PANIC_COUNT, process, exit_code, stderr,
                   file_ops, files, now, run>>

\* Lines 104-105: the file name, from the clock at this moment.
Timestamp(t) ==
    /\ Alive
    /\ UNCHANGED nonPanicVars
    /\ pc[t] = "L104"
    /\ hook' = [hook EXCEPT ![t].timestamp = Some(FormatTimestamp(now))]
    /\ pc' = [pc EXCEPT ![t] = "L106"]
    /\ UNCHANGED <<RELEASE_CHANNEL, is_pty, PANIC_COUNT, process, exit_code, stderr,
                   log, file_ops, files, now, run>>

\* Lines 106-111: open with append and create; an error is logged and the
\* write skipped.
Open(t) ==
    /\ Alive
    /\ UNCHANGED nonPanicVars
    /\ pc[t] = "L106"
    /\ \E ok \in BOOLEAN :
          IF ok
          THEN /\ files' = [files EXCEPT ![hook[t].timestamp[1]].exists = TRUE]
               /\ hook' = [hook EXCEPT ![t].panic_file = "open"]
               /\ file_ops' = Append(file_ops, "open")
               /\ pc' = [pc EXCEPT ![t] = "L112"]
               /\ UNCHANGED log
          ELSE /\ log' = Append(log, "open error")
               /\ file_ops' = Append(file_ops, "open failed")
               /\ pc' = [pc EXCEPT ![t] = "L118"]
               /\ UNCHANGED <<files, hook>>
    /\ UNCHANGED <<RELEASE_CHANNEL, is_pty, PANIC_COUNT, process, exit_code, stderr,
                   now, run>>

\* Mutant of Write: a failed write leaves the hook's file block at once, the
\* file unflushed and still open.
Write_LeavesOnError(t) ==
    /\ Alive
    /\ UNCHANGED nonPanicVars
    /\ pc[t] = "L112"
    /\ \E res \in {"ok", "torn", "nothing"} :
          /\ files' = IF res = "nothing" THEN files
                      ELSE [files EXCEPT ![hook[t].timestamp[1]].lines =
                              Append(@, [text |-> hook[t].panic_data_json[1],
                                         newline |-> res = "ok"])]
          /\ log' = IF res = "ok" THEN log ELSE Append(log, "write error")
          /\ file_ops' = Append(file_ops, IF res = "ok" THEN "write" ELSE "write failed")
          /\ pc' = [pc EXCEPT ![t] = IF res = "ok" THEN "L113" ELSE "L118"]
    /\ UNCHANGED <<RELEASE_CHANNEL, is_pty, PANIC_COUNT, hook, process, exit_code,
                   stderr, now, run>>

\* Line 112: writeln!.  The text and the newline are written one after the
\* other, so a failing write leaves nothing or the text without its newline.
Write(t) ==
    /\ Alive
    /\ UNCHANGED nonPanicVars
    /\ pc[t] = "L112"
    /\ \E res \in {"ok", "torn", "nothing"} :
          /\ files' = IF res = "nothing" THEN files
                      ELSE [files EXCEPT ![hook[t].timestamp[1]].lines =
                              Append(@, [text |-> hook[t].panic_data_json[1],
                                         newline |-> res = "ok"])]
          /\ log' = IF res = "ok" THEN log ELSE Append(log, "write error")
          /\ file_ops' = Append(file_ops, IF res = "ok" THEN "write" ELSE "write failed")
    /\ pc' = [pc EXCEPT ![t] = "L113"]
    /\ UNCHANGED <<RELEASE_CHANNEL, is_pty, PANIC_COUNT, hook, process, exit_code,
                   stderr, now, run>>

\* Line 113: flush, an error of it logged.
Flush(t) ==
    /\ Alive
    /\ UNCHANGED nonPanicVars
    /\ pc[t] = "L113"
    /\ \E ok \in BOOLEAN :
          /\ log' = IF ok THEN log ELSE Append(log, "flush error")
          /\ file_ops' = Append(file_ops, IF ok THEN "flush" ELSE "flush failed")
    /\ pc' = [pc EXCEPT ![t] = "L114"]
    /\ UNCHANGED <<RELEASE_CHANNEL, is_pty, PANIC_COUNT, hook, process, exit_code,
                   stderr, files, now, run>>

\* Line 114: the end of panic_file's scope drops (closes) the file.
Close(t) ==
    /\ Alive
    /\ UNCHANGED nonPanicVars
    /\ pc[t] = "L114"
    /\ hook' = [hook EXCEPT ![t].panic_file = "closed"]
    /\ file_ops' = Append(file_ops, "close")
    /\ pc' = [pc EXCEPT ![t] = "L118"]
    /\ UNCHANGED <<RELEASE_CHANNEL, is_pty, PANIC_COUNT, process, exit_code, stderr,
                   log, files, now, run>>

\* Mutant of Abort: the hook ends in a clean exit instead.
Abort_AsExit(t) ==
    /\ Alive
    /\ UNCHANGED nonPanicVars
    /\ pc[t] = "L118"
    /\ process' = "exited"
    /\ exit_code' = Some(ExitStatus(-1))
    /\ UNCHANGED <<RELEASE_CHANNEL, is_pty, PANIC_COUNT, pc, hook, stderr,
                   log, file_ops, files, now, run>>

\* Line 118: abort.
Abort(t) ==
    /\ Alive
    /\ UNCHANGED nonPanicVars
    /\ pc[t] = "L118"
    /\ process' = "aborted"
    /\ UNCHANGED <<RELEASE_CHANNEL, is_pty, PANIC_COUNT, pc, hook, exit_code, stderr,
                   log, file_ops, files, now, run>>

\* The wall clock advances, whether the process runs or not.
Tick ==
    /\ now < MaxTime
    /\ UNCHANGED nonPanicVars
    /\ now' = now + 1
    /\ UNCHANGED <<RELEASE_CHANNEL, is_pty, PANIC_COUNT, pc, hook, process, exit_code,
                   stderr, log, file_ops, files>>
    /\ UNCHANGED run

\* The application is started again after it ended: a new process, the same
\* build, the same logs directory (lines 19-24 run again).  Starting takes
\* time: at least one tick of the clock.
Restart ==
    /\ ~Alive
    /\ UNCHANGED nonPanicVars
    /\ run < MaxRuns
    /\ run' = run + 1
    /\ now < MaxTime
    /\ now' = now + 1
    /\ is_pty' \in BOOLEAN
    /\ PANIC_COUNT' = 0
    /\ pc' = [t \in Threads |-> "running"]
    /\ hook' = [t \in Threads |-> NoLocals]
    /\ process' = "running"
    /\ exit_code' = Nothing
    /\ stderr' = <<>>
    /\ log' = <<>>
    /\ file_ops' = <<>>
    /\ UNCHANGED <<RELEASE_CHANNEL, files>>

HookStep(t) ==
    \/ Panic(t)
    \/ FetchAdd(t)
    \/ YieldNow(t)
    \/ Extract(t)
    \/ DevReport(t)
    \/ Capture(t)
    \/ Build(t)
    \/ LogPretty(t)
    \/ Serialize(t)
    \/ Timestamp(t)
    \/ Open(t)
    \/ Write(t)
    \/ Flush(t)
    \/ Close(t)
    \/ Abort(t)


(***************************************************************************)
(* The hang monitor, lines 131-239.                                        *)
(***************************************************************************)

MaxIntervals == 6    \* the watchdog sleeps at most this many intervals
MaxOver == 2         \* the interrupted stack is at most this much deeper than Reserve
MaxSlack == 1        \* reserve() may allocate up to this much more than asked

\* Line 171: reserve(100).
Reserve == 100

\* Line 214: channel(3).
HeartbeatBuffer == 3

StackDepths == 0..(Reserve + MaxOver)

HangStateInit ==
    /\ mpc = "L138"
    /\ bt = <<>>
    /\ bt_capacity = 0
    /\ bt_lock = None
    /\ BACKTRACE_SENDER = Nothing
    /\ backtrace_rx = "none"
    /\ notifications = 0
    /\ disposition = "SIG_DFL"
    /\ sigaction_result = "none"
    /\ pending = FALSE
    /\ blocked = FALSE
    /\ tx = "none"
    /\ rx = "none"
    /\ num_messages = 0
    /\ parked = FALSE
    /\ wpc = "none"
    /\ intervals = 0
    /\ signal_interval = Nothing
    /\ signals_sent = 0
    /\ hpc = "none"
    /\ handler_runs = 0
    /\ stack_depth = 0
    /\ walk = 0
    /\ sent = "none"
    /\ drained = FALSE
    /\ drained_every_interval = TRUE

\* The state of the monitor's variables in the specifications that do not
\* run it.
HangOff == HangStateInit

(***************************************************************************)
(* The record builder alone: lines 35-43 and 60-78 applied to every        *)
(* payload, thread name and capture of the bounded input sets.             *)
(***************************************************************************)

ThreadNames == {None, "main", "worker-3"}

BuilderInit ==
    /\ info \in Payloads
    /\ thread \in ThreadNames
    /\ symbols \in SymbolCaptures
    /\ built = Nothing

\* The state of the builder's variables in the specifications that do not
\* run it.
BuilderOff ==
    /\ info = [type |-> "&str", text |-> "boom"]
    /\ thread = None
    /\ symbols = <<>>
    /\ built = Nothing

\* Lines 35-43 and 60-78 on the drawn inputs.
BuildFields ==
    /\ built = Nothing
    /\ built' = Some([thread |-> ThreadNameOrDefault(thread),
                      payload |-> PayloadMessage(info),
                      names |-> SymbolNames(symbols),
                      backtrace |-> StripUnwind(SymbolNames(symbols))])
    /\ UNCHANGED <<info, thread, symbols>>
    /\ UNCHANGED <<panicVars, hangVars>>

vars == <<panicVars, builderVars, hangVars>>

\* One run of the process.
PanicNext ==
    \/ \E t \in Threads : HookStep(t)
    \/ Tick

HookInit == PanicInit /\ BuilderOff /\ HangOff

PanicSpec == HookInit /\ [][PanicNext]_vars

\* Successive runs of the process over one logs directory.
RestartNext ==
    \/ \E t \in Threads : HookStep(t)
    \/ Tick
    \/ Restart

RestartSpec == HookInit /\ [][RestartNext]_vars

\* The state of the hook's variables in the specifications that do not run it.
PanicOff ==
    /\ RELEASE_CHANNEL = "Stable"
    /\ is_pty = FALSE
    /\ HookStateInit

BuilderNext == BuildFields

BuilderSpecInit == BuilderInit /\ PanicOff /\ HangOff

BuilderSpec == BuilderSpecInit /\ [][BuilderNext]_vars

btVars == <<bt, bt_capacity, bt_lock>>
notifyVars == <<BACKTRACE_SENDER, backtrace_rx, notifications, sent>>
sigVars == <<disposition, sigaction_result, pending, blocked>>
hbVars == <<tx, rx, num_messages, parked, drained, drained_every_interval>>
wdVars == <<wpc, intervals, signal_interval, signals_sent>>
handlerVars == <<hpc, handler_runs, stack_depth, walk>>

\* What no step of the monitor changes.
hookState == <<RELEASE_CHANNEL, is_pty, PANIC_COUNT, pc, hook, exit_code, stderr, log,
               file_ops, files, now, run>>
nonHangVars == <<hookState, builderVars>>

\* Mutant of MonitoredChannel: the monitor runs on every channel.
MonitoredChannel_Every(channel) == TRUE

\* Lines 138-141: the channels the monitor runs on.
MonitoredChannel(channel) == channel \in {"Dev", "Nightly", "Preview"}

\* Line 171: Vec::reserve(additional): the capacity is left alone when it
\* already has the room, and is otherwise at least len + additional.
VecReserve(len, capacity, additional) ==
    IF capacity - len >= additional THEN {capacity}
    ELSE (len + additional)..(len + additional + MaxSlack)

\* Line 186: the capacity after Vec::push: a full Vec grows (it doubles).
CapacityAfterPush(len, capacity) ==
    IF len < capacity THEN capacity
    ELSE IF 2 * capacity > len + 1 THEN 2 * capacity ELSE len + 1

\* Mutant of HasRoom: one frame more than the capacity is let in.
HasRoom_OneMore(len, capacity) == len <= capacity

\* Line 185: the test before each push.
HasRoom(len, capacity) == len < capacity

\* Line 225: the outcome of try_send on the bounded futures channel.  A
\* parked sender is refused as full; a sender that is not parked and whose
\* receiver is gone is refused as disconnected.
TrySendResult ==
    IF parked THEN "full"
    ELSE IF rx # "alive" THEN "disconnected"
    ELSE "ok"

\* Line 225: whether a successful send parks the sender.  The channel holds
\* its buffer and one slot per sender: the send that exceeds the buffer is
\* accepted and parks the sender until the receiver takes a message.
ParksSender(messages_after_send) == messages_after_send > HeartbeatBuffer

\* Mutant of SignalOnError: the signal is sent without the test of is_full().
SignalOnError_Untested(kind) == TRUE

\* Mutant of SignalOnError: the test of is_full() is inverted.
SignalOnError_Inverted(kind) == kind # "full"

\* Line 228: the errors on which the signal is sent.
SignalOnError(kind) == kind = "full"

\* Mutant of AfterError: the loop goes on after an error.
AfterError_Continue == "L224"

\* Line 232: the loop ends after an error of either kind.
AfterError == "L232"

\* The main thread runs its own code: the process lives and no signal
\* handler is running on top of it.
MainRuns == process = "running" /\ hpc \in {"none", "returned"}

\* Lines 138-143: return at once on a channel that is not monitored.
CheckChannel ==
    /\ MainRuns
    /\ mpc = "L138"
    /\ mpc' = IF MonitoredChannel(RELEASE_CHANNEL) THEN "L167" ELSE "done"
    /\ UNCHANGED <<btVars, notifyVars, sigVars, hbVars, wdVars, handlerVars,
                   process, nonHangVars>>

\* Line 167: the notification channel.
CreateBacktraceChannel ==
    /\ MainRuns
    /\ mpc = "L167"
    /\ backtrace_rx' = "alive"
    /\ mpc' = "L170"
    /\ UNCHANGED <<btVars, BACKTRACE_SENDER, notifications, sent, sigVars, hbVars,
                   wdVars, handlerVars, process, nonHangVars>>

\* Mutant of InitSender: the sender is not stored.
InitSender_StoresNothing ==
    /\ MainRuns
    /\ mpc = "L170"
    /\ mpc' = "L171"
    /\ UNCHANGED <<btVars, notifyVars, sigVars, hbVars, wdVars, handlerVars, process,
                   nonHangVars>>

\* Line 170: get_or_init stores the sender unless one is stored already.
InitSender ==
    /\ MainRuns
    /\ mpc = "L170"
    /\ BACKTRACE_SENDER' = IF BACKTRACE_SENDER = Nothing THEN Some("backtrace_tx")
                           ELSE BACKTRACE_SENDER
    /\ mpc' = "L171"
    /\ UNCHANGED <<btVars, backtrace_rx, notifications, sent, sigVars, hbVars, wdVars,
                   handlerVars, process, nonHangVars>>

\* Line 171: lock BACKTRACE and reserve.
LockAndReserve ==
    /\ MainRuns
    /\ mpc = "L171"
    /\ bt_lock = None
    /\ bt_lock' = "main"
    /\ bt_capacity' \in VecReserve(Len(bt), bt_capacity, Reserve)
    /\ mpc' = "L171u"
    /\ UNCHANGED <<bt, notifyVars, sigVars, hbVars, wdVars, handlerVars, process,
                   nonHangVars>>

\* Mutant of UnlockAfterReserve: the guard outlives the statement.
UnlockAfterReserve_KeepsGuard ==
    /\ MainRuns
    /\ mpc = "L171u"
    /\ mpc' = "L211"
    /\ UNCHANGED <<btVars, notifyVars, sigVars, hbVars, wdVars, handlerVars, process,
                   nonHangVars>>

\* Line 171: the guard is dropped at the end of the statement.
UnlockAfterReserve ==
    /\ MainRuns
    /\ mpc = "L171u"
    /\ bt_lock' = None
    /\ mpc' = "L211"
    /\ UNCHANGED <<bt, bt_capacity, notifyVars, sigVars, hbVars, wdVars, handlerVars,
                   process, nonHangVars>>

\* Lines 197-207 and 211: sigaction; its error is logged and nothing else.
InstallHandler ==
    /\ MainRuns
    /\ mpc = "L211"
    /\ \E ok \in BOOLEAN :
          /\ sigaction_result' = IF ok THEN "ok" ELSE "error"
          /\ disposition' = IF ok THEN "handle_sigusr2" ELSE disposition
    /\ mpc' = "L214"
    /\ UNCHANGED <<btVars, notifyVars, pending, blocked, hbVars, wdVars, handlerVars,
                   process, nonHangVars>>

\* Lines 212-217: the heartbeat channel and the drain task on the main
\* thread's executor.
CreateHeartbeat ==
    /\ MainRuns
    /\ mpc = "L214"
    /\ tx' = "alive"
    /\ rx' = "alive"
    /\ mpc' = "L219"
    /\ UNCHANGED <<btVars, notifyVars, sigVars, num_messages, parked, drained,
                   drained_every_interval, wdVars, handlerVars, process, nonHangVars>>

\* Lines 219-238: the watchdog task is spawned on the background executor.
SpawnWatchdog ==
    /\ MainRuns
    /\ mpc = "L219"
    /\ wpc' = "L224"
    /\ mpc' = "L239"
    /\ UNCHANGED <<btVars, notifyVars, sigVars, hbVars, intervals, signal_interval,
                   signals_sent, handlerVars, process, nonHangVars>>

\* Line 239: the function returns; its local backtrace_rx is dropped, and
\* with it whatever the channel held.
Return ==
    /\ MainRuns
    /\ mpc = "L239"
    /\ backtrace_rx' = "dropped"
    /\ notifications' = 0
    /\ mpc' = "done"
    /\ UNCHANGED <<btVars, BACKTRACE_SENDER, sent, sigVars, hbVars, wdVars,
                   handlerVars, process, nonHangVars>>

\* Line 216: the drain task, run by the main thread's executor once the
\* monitor has returned, receives one heartbeat; that unparks the sender.
DrainOne ==
    /\ MainRuns
    /\ mpc = "done"
    /\ rx = "alive"
    /\ num_messages > 0
    /\ num_messages' = num_messages - 1
    /\ parked' = FALSE
    /\ drained' = TRUE
    /\ UNCHANGED <<mpc, btVars, notifyVars, sigVars, tx, rx, drained_every_interval,
                   wdVars, handlerVars, process, nonHangVars>>

\* Line 216: the channel is empty and its sender gone: next() yields None,
\* the task ends and drops the receiver.
DrainEnd ==
    /\ MainRuns
    /\ mpc = "done"
    /\ rx = "alive"
    /\ num_messages = 0
    /\ tx = "dropped"
    /\ rx' = "dropped"
    /\ UNCHANGED <<mpc, btVars, notifyVars, sigVars, tx, num_messages, parked, drained,
                   drained_every_interval, wdVars, handlerVars, process, nonHangVars>>

\* Lines 215-217: the detached task lives as long as the foreground
\* executor; when the application shuts that down the task and its receiver
\* are dropped, which empties the channel and unparks the sender.
DropForeground ==
    /\ MainRuns
    /\ mpc = "done"
    /\ rx = "alive"
    /\ rx' = "dropped"
    /\ num_messages' = 0
    /\ parked' = FALSE
    /\ UNCHANGED <<mpc, btVars, notifyVars, sigVars, tx, drained, drained_every_interval,
                   wdVars, handlerVars, process, nonHangVars>>

\* Line 224: one sleep interval passes.
Timer ==
    /\ process = "running"
    /\ wpc = "L224"
    /\ intervals < MaxIntervals
    /\ intervals' = intervals + 1
    /\ wpc' = "L225"
    /\ UNCHANGED <<mpc, btVars, notifyVars, sigVars, hbVars, signal_interval,
                   signals_sent, handlerVars, process, nonHangVars>>

\* Mutant of TrySend: the arms of the match are swapped: the loop ends with
\* the signal on Ok and goes on after an error.
TrySend_ArmsSwapped ==
    /\ process = "running"
    /\ wpc = "L225"
    /\ IF TrySendResult = "ok"
       THEN /\ num_messages' = num_messages + 1
            /\ parked' = ParksSender(num_messages + 1)
            /\ wpc' = "L229"
       ELSE /\ wpc' = "L224"
            /\ UNCHANGED <<num_messages, parked>>
    /\ drained_every_interval' =
          (drained_every_interval /\ rx = "alive" /\ num_messages = 0)
    /\ UNCHANGED <<mpc, btVars, notifyVars, sigVars, tx, rx, drained, intervals,
                   signal_interval, signals_sent, handlerVars, process, nonHangVars>>

\* Lines 225-228: try_send and the branch on its result.
TrySend ==
    /\ process = "running"
    /\ wpc = "L225"
    /\ IF TrySendResult = "ok"
       THEN /\ num_messages' = num_messages + 1
            /\ parked' = ParksSender(num_messages + 1)
            /\ wpc' = "L224"
       ELSE /\ wpc' = IF SignalOnError(TrySendResult) THEN "L229" ELSE AfterError
            /\ UNCHANGED <<num_messages, parked>>
    /\ drained_every_interval' =
          (drained_every_interval /\ rx = "alive" /\ num_messages = 0)
    /\ UNCHANGED <<mpc, btVars, notifyVars, sigVars, tx, rx, drained, intervals,
                   signal_interval, signals_sent, handlerVars, process, nonHangVars>>

\* Line 229: pthread_kill(main_thread, SIGUSR2).
Kill ==
    /\ process = "running"
    /\ wpc = "L229"
    /\ pending' = TRUE
    /\ signals_sent' = signals_sent + 1
    /\ signal_interval' = Some(intervals)
    /\ wpc' = AfterError
    /\ UNCHANGED <<mpc, btVars, notifyVars, disposition, sigaction_result, blocked,
                   hbVars, intervals, handlerVars, process, nonHangVars>>

\* Line 232: break; the task ends and drops the sender.
Break ==
    /\ process = "running"
    /\ wpc = "L232"
    /\ tx' = "dropped"
    /\ wpc' = "done"
    /\ UNCHANGED <<mpc, btVars, notifyVars, sigVars, rx, num_messages, parked, drained,
                   drained_every_interval, intervals, signal_interval, signals_sent, handlerVars, process,
                   nonHangVars>>

\* The kernel delivers the pending signal to the main thread, wherever that
\* is.  With the handler installed (lines 199-205) it starts handle_sigusr2
\* with SIGUSR2 blocked and, for SA_RESETHAND, the disposition reset; with
\* the default disposition the process is terminated.
Deliver ==
    /\ process = "running"
    /\ pending
    /\ ~blocked
    /\ pending' = FALSE
    /\ IF disposition = "handle_sigusr2"
       THEN /\ hpc' = "L182"
            /\ handler_runs' = handler_runs + 1
            /\ disposition' = "SIG_DFL"
            /\ blocked' = TRUE
            /\ stack_depth' \in StackDepths
            /\ walk' = 1
            /\ UNCHANGED process
       ELSE /\ process' = "killed"
            /\ UNCHANGED <<handlerVars, disposition, blocked>>
    /\ UNCHANGED <<mpc, btVars, notifyVars, sigaction_result, hbVars, wdVars,
                   nonHangVars>>

\* Line 182: BACKTRACE.lock(); it waits while the lock is held.
HandlerLock ==
    /\ process = "running"
    /\ hpc = "L182"
    /\ bt_lock = None
    /\ bt_lock' = "handler"
    /\ hpc' = "L183"
    /\ UNCHANGED <<mpc, bt, bt_capacity, notifyVars, sigVars, hbVars, wdVars,
                   handler_runs, stack_depth, walk, process, nonHangVars>>

\* Line 183: bt.clear().
HandlerClear ==
    /\ process = "running"
    /\ hpc = "L183"
    /\ bt' = <<>>
    /\ hpc' = "L184"
    /\ UNCHANGED <<mpc, bt_capacity, bt_lock, notifyVars, sigVars, hbVars, wdVars,
                   handler_runs, stack_depth, walk, process, nonHangVars>>

\* Lines 184-187: the callback for one more frame of the stack: pushed when
\* there is room.
TraceFrame ==
    /\ process = "running"
    /\ hpc = "L184"
    /\ walk <= stack_depth
    /\ HasRoom(Len(bt), bt_capacity)
    /\ bt' = Append(bt, walk)
    /\ bt_capacity' = CapacityAfterPush(Len(bt), bt_capacity)
    /\ walk' = walk + 1
    /\ UNCHANGED <<mpc, bt_lock, notifyVars, sigVars, hbVars, wdVars, hpc,
                   handler_runs, stack_depth, process, nonHangVars>>

\* Mutant of TraceEnd: the notification is sent inside the block, with the
\* guard still held.
TraceEnd_NotifiesLocked ==
    /\ process = "running"
    /\ hpc = "L184"
    /\ walk > stack_depth \/ ~HasRoom(Len(bt), bt_capacity)
    /\ hpc' = "L194"
    /\ UNCHANGED <<mpc, btVars, notifyVars, sigVars, hbVars, wdVars, handler_runs,
                   stack_depth, walk, process, nonHangVars>>

\* Lines 184-191: the walk ends: the stack is exhausted, or the callback
\* returned false because there is no room.
TraceEnd ==
    /\ process = "running"
    /\ hpc = "L184"
    /\ walk > stack_depth \/ ~HasRoom(Len(bt), bt_capacity)
    /\ hpc' = "L192"
    /\ UNCHANGED <<mpc, btVars, notifyVars, sigVars, hbVars, wdVars, handler_runs,
                   stack_depth, walk, process, nonHangVars>>

\* Line 192: the end of the block drops the guard.
HandlerUnlock ==
    /\ process = "running"
    /\ hpc = "L192"
    /\ bt_lock' = None
    /\ hpc' = "L194"
    /\ UNCHANGED <<mpc, bt, bt_capacity, notifyVars, sigVars, hbVars, wdVars,
                   handler_runs, stack_depth, walk, process, nonHangVars>>

\* Line 194: get().unwrap() panics on an unset sender; send() fails when the
\* receiver is gone, which ok() ignores.  The handler returns and the signal
\* is unblocked.
HandlerNotify ==
    /\ process = "running"
    /\ hpc = "L194"
    /\ IF BACKTRACE_SENDER = Nothing
       THEN /\ hpc' = "panicked"
            /\ UNCHANGED <<notifications, sent, blocked>>
       ELSE /\ hpc' = "returned"
            /\ blocked' = FALSE
            /\ IF backtrace_rx = "alive"
               THEN notifications' = notifications + 1 /\ sent' = "ok"
               ELSE notifications' = notifications /\ sent' = "error"
    /\ UNCHANGED <<mpc, btVars, BACKTRACE_SENDER, backtrace_rx, disposition,
                   sigaction_result, pending, hbVars, wdVars, handler_runs,
                   stack_depth, walk, process, nonHangVars>>

HangNext ==
    \/ CheckChannel
    \/ CreateBacktraceChannel
    \/ InitSender
    \/ LockAndReserve
    \/ UnlockAfterReserve
    \/ InstallHandler
    \/ CreateHeartbeat
    \/ SpawnWatchdog
    \/ Return
    \/ DrainOne
    \/ DrainEnd
    \/ DropForeground
    \/ Timer
    \/ TrySend
    \/ Kill
    \/ Break
    \/ Deliver
    \/ HandlerLock
    \/ HandlerClear
    \/ TraceFrame
    \/ TraceEnd
    \/ HandlerUnlock
    \/ HandlerNotify

HangInit ==
    /\ RELEASE_CHANNEL \in ReleaseChannels
    /\ is_pty = FALSE
    /\ HookStateInit
    /\ BuilderOff
    /\ HangStateInit

HangSpec == HangInit /\ [][HangNext]_vars

(***************************************************************************)
(* Properties of the panic hook.                                           *)
(***************************************************************************)

\* The threads whose fetch_add has returned, and among them the first.
Entered == {t \in Threads : hook[t].prior_panic_count # Nothing}
First == {t \in Entered : hook[t].prior_panic_count[1] = 0}

\* The positions of the hook's body, after the zero-check.
BodyPositions == {"L35", "L45", "L57", "L60", "L80", "L98", "L102", "L104", "L106",
                  "L112", "L113", "L114", "L118"}

\* C1, state part: of the invocations whose fetch_add returned, exactly one
\* (the one that got 0) is in the body; every other one is in the yield loop
\* and has built nothing.
C1_State ==
    /\ Entered # {} => Cardinality(First) = 1
    /\ \A t \in First : pc[t] \in BodyPositions
    /\ \A t \in Entered \ First :
          /\ pc[t] = "L30"
          /\ hook[t].panic_data = Nothing
          /\ hook[t].panic_file = "none"
    /\ \A t \in Threads \ Entered : pc[t] \in {"running", "L27"}
    /\ process # "running" => \E t \in First : pc[t] \in {"L57", "L118"}

\* C1, step part: an invocation in the yield loop stays in it, and only the
\* first invocation's steps touch the record, the files or the process.
C1_Step ==
    /\ \A t \in Threads : pc[t] = "L30" => pc'[t] = "L30" /\ hook'[t] = hook[t]
    /\ (files' # files \/ process' # process \/ file_ops' # file_ops)
          => \E t \in First : pc[t] \in BodyPositions /\ pc'[t] \in BodyPositions

\* C1: for any number of threads entering the hook, in any interleaving,
\* exactly one invocation (the one whose fetch_add returned 0) builds the
\* record, persists it and terminates the process; every other invocation
\* stays in the yield loop: it never returns, builds, writes, exits or aborts.
C1_ExactlyOneReporter == [](C1_State) /\ [][C1_Step]_vars

\* C1 witness: both threads have entered, one spins while the other has
\* terminated the process.
C1_Witness ==
    /\ Cardinality(Entered) = NThreads
    /\ \E t \in Threads : pc[t] = "L30"
    /\ process = "aborted"

\* C6: on every channel other than Dev the first invocation never exits
\* cleanly and never returns: until the process is aborted it is inside the
\* body with a next step to take, whatever serialization, open, write or
\* flush failure has been logged.
C6_AlwaysAbort ==
    RELEASE_CHANNEL # "Dev" =>
       /\ process # "exited"
       /\ \A t \in First :
             \/ process = "aborted" /\ pc[t] = "L118"
             \/ process = "running" /\ pc[t] \in BodyPositions /\ ENABLED HookStep(t)

\* C6 witness: aborted after the open of the panic file failed.
C6_Witness ==
    /\ process = "aborted"
    /\ \E i \in 1..Len(log) : log[i] = "open error"

\* C7: a panic file is opened or written only off Dev and without a
\* terminal; on Dev the hook prints to standard error and exits with a
\* non-zero status, with a terminal off Dev it logs and aborts, in both cases
\* without any file operation.
C7_FileOnlyWithoutTerminal ==
    /\ (file_ops # <<>> \/ \E n \in FileNames : files[n].exists)
          => RELEASE_CHANNEL # "Dev" /\ ~is_pty
    /\ RELEASE_CHANNEL = "Dev" => process # "aborted"
    /\ process = "exited" =>
          /\ RELEASE_CHANNEL = "Dev"
          /\ Len(stderr) = 1
          /\ exit_code # Nothing /\ exit_code[1] # 0
    /\ (process = "aborted" /\ is_pty) =>
          /\ Len(log) = 1
          /\ log[1] \in {"panic_data", "to_string_pretty error"}

\* C7 witness: off Dev and without a terminal, the record is in a file.
C7_Witness ==
    /\ process = "aborted"
    /\ \E n \in FileNames : files[n].lines # <<>>

\* The files that hold the record of run r as a complete line of its own.
HoldsRecordOf(r) ==
    {n \in FileNames :
        \E i \in 1..Len(files[n].lines) :
           /\ files[n].lines[i].text.of.session_id = r
           /\ files[n].lines[i].newline
           /\ i > 1 => files[n].lines[i - 1].newline}

\* C8: of two panics in successive runs, off Dev and without a terminal,
\* both written without error, each record is a line of its own and the two
\* records are in two distinct files, however close together in time.
C8_TwoPanicsTwoFiles ==
    (/\ run = 2
     /\ process = "aborted"
     /\ HoldsRecordOf(1) # {}
     /\ HoldsRecordOf(2) # {})
        => HoldsRecordOf(1) \cap HoldsRecordOf(2) = {}

(***************************************************************************)
(* Properties of the hang monitor.                                         *)
(***************************************************************************)

\* The drain task exists and has never received: the UI thread has not
\* drained the heartbeat channel since the monitor started.
NeverDrained == wpc # "none" /\ rx = "alive" /\ ~drained

\* C2 as stated: with the channel never drained, pthread_kill is called no
\* later than HeartbeatBuffer + 1 = 4 sleep intervals after the watchdog
\* started.
C2_SignalWithinFourIntervals ==
    (NeverDrained /\ intervals > HeartbeatBuffer + 1) =>
        /\ signal_interval # Nothing
        /\ signal_interval[1] <= HeartbeatBuffer + 1

\* C2 amended: with the channel never drained, the first HeartbeatBuffer + 1
\* pushes succeed (the channel holds its buffer of 3 and one slot of its one
\* sender), the push after the fifth sleep interval fails as full, and
\* pthread_kill is called in that interval: within
\* HeartbeatBuffer + 2 = 5 sleep intervals, and not before.
C2_SignalWithinFiveIntervals ==
    NeverDrained =>
        /\ intervals <= HeartbeatBuffer + 2
        /\ wpc \in {"L229", "L232", "done"} => intervals = HeartbeatBuffer + 2
        /\ signals_sent = (IF wpc \in {"L232", "done"} THEN 1 ELSE 0)
        /\ signal_interval # Nothing => signal_interval[1] = HeartbeatBuffer + 2

\* C2 witness: never drained, the signal was sent in the fifth interval.
C2_Witness ==
    /\ NeverDrained
    /\ signals_sent = 1
    /\ signal_interval = Some(HeartbeatBuffer + 2)

Min(a, b) == IF a < b THEN a ELSE b

\* C3, state part: the buffer is never longer than its capacity, and a
\* finished walk has stored the first frames of the stack, as many as the
\* capacity allows.
C3_State ==
    /\ Len(bt) <= bt_capacity
    /\ hpc \in {"L192", "L194", "returned"} =>
          /\ Len(bt) = Min(stack_depth, bt_capacity)
          /\ \A i \in 1..Len(bt) : bt[i] = i

\* C3, step part: only the reserve of line 171 sets the capacity.
C3_Step == mpc # "L171" => bt_capacity' = bt_capacity

\* C3: the length of BACKTRACE is at most its reserved capacity for a stack
\* of any depth: the walk stops once the length equals the capacity, and the
\* buffer is never grown after the reserve.
C3_LengthWithinCapacity == [](C3_State) /\ [][C3_Step]_vars

\* C3 witness: a stack deeper than the capacity was captured, truncated.
C3_Witness ==
    /\ hpc = "returned"
    /\ stack_depth > bt_capacity
    /\ Len(bt) = bt_capacity

\* C4, step part: once a push has failed the watchdog never sleeps or pushes
\* again, and a finished watchdog stays finished.
C4_Step ==
    /\ wpc \in {"L229", "L232"} => wpc' \in {"L229", "L232", "done"}
    /\ wpc = "done" => wpc' = "done"

\* C4: in one process lifetime pthread_kill is called at most once and the
\* handler runs at most once; after the first failed push the watchdog loop
\* has ended for good, however the UI thread behaves afterwards.
C4_AtMostOneSignal ==
    [](signals_sent <= 1 /\ handler_runs <= 1) /\ [][C4_Step]_vars

\* C4 witness: the hang was signalled and captured, and the UI thread then
\* recovered and emptied the channel.
C4_Witness ==
    /\ signals_sent = 1
    /\ handler_runs = 1
    /\ hpc = "returned"
    /\ wpc = "done"
    /\ drained
    /\ num_messages = 0

\* C5: once the handler has filled the buffer and sent its notification, the
\* notification is there for a consumer to receive: the receiving end of the
\* notification channel exists and holds it.
C5_NotificationReachesConsumer ==
    hpc = "returned" => backtrace_rx = "alive" /\ notifications >= 1

(***************************************************************************)
(* Properties of the record builder.                                       *)
(***************************************************************************)

\* Whether the names hold the marker at all.
HasMarker(names) == \E i \in 1..Len(names) : names[i] = Marker

\* frames is what follows position ix of names, in order.
IsSuffixAfter(frames, names, ix) ==
    /\ Len(frames) = Len(names) - ix
    /\ \A k \in 1..Len(frames) : frames[k] = names[ix + k]

\* C9 as stated: the record's frames hold no frame at or before a marker
\* frame, so no marker frame either; they are the suffix that follows the
\* marker, and the whole capture when there is no marker.
C9_NoFrameAtOrBeforeAMarker ==
    built # Nothing =>
       LET names == built[1].names
           frames == built[1].backtrace
       IN  IF HasMarker(names)
           THEN /\ ~HasMarker(frames)
                /\ \E ix \in 1..Len(names) :
                      names[ix] = Marker /\ IsSuffixAfter(frames, names, ix)
           ELSE frames = names

\* C9 amended: the record's frames are exactly the suffix that follows the
\* first marker frame of the capture, in the original order (later marker
\* frames are kept); without a marker they are the whole capture.
C9_SuffixAfterFirstMarker ==
    built # Nothing =>
       LET names == built[1].names
           frames == built[1].backtrace
       IN  IF HasMarker(names)
           THEN \E ix \in 1..Len(names) :
                   /\ names[ix] = Marker
                   /\ \A j \in 1..(ix - 1) : names[j] # Marker
                   /\ IsSuffixAfter(frames, names, ix)
           ELSE frames = names

\* C9 witness: a frame before the marker and a frame after it; the record
\* keeps the one after.
C9_Witness ==
    /\ built # Nothing
    /\ built[1].names = <<"core::panicking::panic_fmt", Marker, "zed::main">>
    /\ built[1].backtrace = <<"zed::main">>

\* C10: the message is the payload's text when the payload is a &str or a
\* String and the placeholder "Box<Any>" for any other type; the thread name
\* is the thread's own name, or "<unnamed>" when it has none.
C10_MessageAndThreadName ==
    built # Nothing =>
       /\ info.type \in {"&str", "String"} => built[1].payload = info.text
       /\ info.type \notin {"&str", "String"} => built[1].payload = "Box<Any>"
       /\ thread = None => built[1].thread = "<unnamed>"
       /\ thread # None => built[1].thread = thread

\* C10 witness: an unnamed thread panics with a payload that is no string.
C10_Witness ==
    /\ built # Nothing
    /\ info.type = "i32"
    /\ thread = None
    /\ built[1].payload = "Box<Any>"
    /\ built[1].thread = "<unnamed>"

(***************************************************************************)
(* Termination of the panic hook.                                          *)
(***************************************************************************)

\* Lines 27-118: the steps a thread takes once its panic has entered the
\* hook.  The scheduler runs every thread again and again and every call of
\* the hook returns, so each thread that can take such a step takes one.
HookProgress(t) ==
    \/ FetchAdd(t)
    \/ YieldNow(t)
    \/ Extract(t)
    \/ DevReport(t)
    \/ Capture(t)
    \/ Build(t)
    \/ LogPretty(t)
    \/ Serialize(t)
    \/ Timestamp(t)
    \/ Open(t)
    \/ Write(t)
    \/ Flush(t)
    \/ Close(t)
    \/ Abort(t)

\* One run of the process under a fair scheduler.
FairPanicSpec ==
    HookInit /\ [][PanicNext]_vars /\ \A t \in Threads : WF_vars(HookProgress(t))

\* C11: once a thread has panicked the process terminates: under fair
\* scheduling the first invocation of the hook reaches exit or abort however
\* many other threads spin, and it never spins itself nor goes back to the
\* code that panicked.
C11_PanicLeadsToTermination ==
    /\ [](\A t \in First : pc[t] \notin {"running", "L27", "L30"})
    /\ (\E t \in Threads : pc[t] # "running") ~> (process # "running")

\* C11 witness: the process has exited on Dev while another thread spins.
C11_Witness ==
    /\ process = "exited"
    /\ \E t \in Threads : pc[t] = "L30"

\* The attempts on the panic file, as file_ops names them.
WriteAttempts == {"write", "write failed"}
FlushAttempts == {"flush", "flush failed"}

\* C17: after a successful open the hook attempts the write, then the
\* flush, then releases the file, and only then aborts, whatever the write
\* and the flush returned; after a failed open it attempts neither.  The
\* process never ends with the file open.
C17_WriteFlushReleaseThenAbort ==
    /\ Len(file_ops) <= 4
    /\ Len(file_ops) >= 1 => file_ops[1] \in {"open", "open failed"}
    /\ (Len(file_ops) >= 1 /\ file_ops[1] = "open failed") => Len(file_ops) = 1
    /\ Len(file_ops) >= 2 => file_ops[2] \in WriteAttempts
    /\ Len(file_ops) >= 3 => file_ops[3] \in FlushAttempts
    /\ Len(file_ops) >= 4 => file_ops[4] = "close"
    /\ process = "aborted" =>
          \/ file_ops = <<>>
          \/ file_ops = <<"open failed">>
          \/ Len(file_ops) = 4
    /\ process # "running" => \A t \in Threads : hook[t].panic_file # "open"
    /\ \A t \in Threads :
          hook[t].panic_file = "open" <=>
             (Len(file_ops) \in 1..3 /\ file_ops[1] = "open" /\ t \in First)

\* C17 witness: the write failed, the flush was still attempted, the file
\* released, and the process aborted.
C17_Witness ==
    /\ process = "aborted"
    /\ file_ops = <<"open", "write failed", "flush", "close">>

(***************************************************************************)
(* Properties of the hang monitor's watchdog and signal handler.           *)
(***************************************************************************)

\* C12: no false positive: as long as at every push so far the drain task
\* was alive and had emptied the heartbeat channel, the channel was not
\* full at any push, every push succeeded and the loop goes on, and no
\* signal was sent or delivered.
C12_NoFalsePositive ==
    drained_every_interval =>
       /\ wpc \in {"none", "L224", "L225"}
       /\ ~parked
       /\ num_messages <= 1
       /\ signals_sent = 0
       /\ ~pending
       /\ hpc = "none"
       /\ process = "running"
       /\ (wpc = "L225" /\ rx = "alive" /\ num_messages = 0) => TrySendResult = "ok"

\* C12 witness: more pushes than the channel can hold have all succeeded
\* with the channel drained in every interval.
C12_Witness ==
    /\ drained_every_interval
    /\ drained
    /\ wpc = "L224"
    /\ intervals > HeartbeatBuffer + 2

\* The steps of the watchdog task, by its position.
C13_Step ==
    /\ (wpc = "L224" /\ wpc' # wpc) =>
          /\ wpc' = "L225"
          /\ intervals' = intervals + 1
          /\ num_messages' = num_messages
          /\ signals_sent' = signals_sent
    /\ (wpc = "L225" /\ wpc' # wpc) =>
          /\ intervals' = intervals
          /\ signals_sent' = signals_sent
          /\ pending' = pending
          /\ CASE TrySendResult = "ok" ->
                     wpc' = "L224" /\ num_messages' = num_messages + 1
                [] TrySendResult = "full" ->
                     wpc' = "L229" /\ num_messages' = num_messages
                [] OTHER ->
                     wpc' = "L232" /\ num_messages' = num_messages
    /\ (wpc = "L229" /\ wpc' # wpc) =>
          /\ wpc' = "L232"
          /\ signals_sent' = signals_sent + 1
          /\ pending'
    /\ (wpc = "L232" /\ wpc' # wpc) =>
          /\ wpc' = "done"
          /\ signals_sent' = signals_sent
    /\ wpc = "done" => wpc' = "done"
    /\ (signals_sent' # signals_sent \/ (pending' /\ ~pending)) => wpc = "L229"

\* C13: an iteration of the watchdog is one sleep interval and then one
\* try_send: on success another iteration follows; on a failure because
\* the channel is full the signal is sent once and the loop ends; on any
\* other failure the loop ends without a signal.  The signal is sent only
\* after a push failed because the channel was full.
C13_WatchdogIteration == [][C13_Step]_vars

\* C13 witness: the loop has ended on a push that failed because the
\* receiver was gone, and no signal was sent.
C13_Witness ==
    /\ wpc = "done"
    /\ intervals >= 1
    /\ signals_sent = 0

\* C14 as stated: the handler is installed before the watchdog starts and
\* still installed whenever the signal is pending, so a delivery runs
\* handle_sigusr2 and never the default action, whatever sigaction returned.
C14_DeliveryRunsHandler ==
    /\ wpc # "none" => (disposition = "handle_sigusr2" \/ handler_runs > 0)
    /\ pending => disposition = "handle_sigusr2"
    /\ process # "killed"

\* C15: the handler's lock() never deadlocks: when the handler starts the
\* lock is free; the main thread holds it only for the reserve, which is
\* over before sigaction and before the watchdog exists; and the handler is
\* entered at most once, with the signal blocked and the disposition reset
\* while it runs.
C15_HandlerLockNeverDeadlocks ==
    /\ hpc = "L182" => (bt_lock = None /\ ENABLED HandlerLock)
    /\ bt_lock = "main" =>
          /\ mpc = "L171u"
          /\ sigaction_result = "none"
          /\ disposition = "SIG_DFL"
          /\ wpc = "none"
          /\ hpc = "none"
    /\ mpc \notin {"L138", "L167", "L170", "L171", "L171u"} => bt_lock # "main"
    /\ hpc \notin {"none", "returned"} => (blocked /\ disposition = "SIG_DFL")
    /\ handler_runs <= 1

\* C15 witness: the handler has taken the lock.
C15_Witness ==
    /\ hpc = "L183"
    /\ bt_lock = "handler"

\* The buffer holds the frames of one finished capture and nothing else.
CaptureComplete ==
    /\ Len(bt) = Min(stack_depth, bt_capacity)
    /\ \A i \in 1..Len(bt) : bt[i] = i

\* The order of the handler's positions.
HandlerOrder ==
    {<<"none", "L182">>, <<"L182", "L183">>, <<"L183", "L184">>, <<"L184", "L192">>,
     <<"L192", "L194">>, <<"L194", "returned">>}

\* What holds at each position of the handler: the lock is held from line
\* 182 to line 192 and nothing is sent before the handler's last step.
C16_State ==
    /\ bt_lock = "handler" <=> hpc \in {"L183", "L184", "L192"}
    /\ hpc \in {"L182", "L183", "L184", "L192", "L194"} => sent = "none"
    /\ hpc = "L184" => (Len(bt) = walk - 1 /\ \A i \in 1..Len(bt) : bt[i] = i)
    /\ hpc \in {"L192", "L194", "returned"} => CaptureComplete
    /\ sent # "none" => (hpc = "returned" /\ bt_lock = None /\ CaptureComplete)

\* The handler's steps follow the order of its lines; the send is the step
\* of line 194 and leaves the buffer alone.
C16_Step ==
    /\ hpc' # hpc => <<hpc, hpc'>> \in HandlerOrder
    /\ (hpc = "L183" /\ hpc' # hpc) => bt' = <<>>
    /\ sent' # sent => (hpc = "L194" /\ bt_lock = None /\ bt' = bt)

\* C16: the handler takes the lock, clears the buffer, captures, releases
\* the lock and sends the notification, in that order: the notification is
\* sent only with the lock released and the capture complete, so the buffer
\* read after it holds that capture whole and nothing older.
C16_NotifyAfterCapture == []C16_State /\ [][C16_Step]_vars

\* C16 witness: the notification was sent after a capture of some frames.
C16_Witness ==
    /\ sent = "ok"
    /\ bt # <<>>
    /\ bt_lock = None

\* C18: on a channel other than Dev, Nightly and Preview the monitor
\* returns before doing anything: no handler installed, no channel and no
\* watchdog created, the buffer untouched, no signal sent; on those three
\* channels the monitor that has returned has started the watchdog.
C18_OnlyOnMonitoredChannels ==
    /\ RELEASE_CHANNEL \notin {"Dev", "Nightly", "Preview"} =>
          /\ mpc \in {"L138", "done"}
          /\ bt = <<>> /\ bt_capacity = 0 /\ bt_lock = None
          /\ BACKTRACE_SENDER = Nothing /\ backtrace_rx = "none"
          /\ disposition = "SIG_DFL" /\ sigaction_result = "none"
          /\ tx = "none" /\ rx = "none" /\ num_messages = 0
          /\ wpc = "none" /\ intervals = 0
          /\ signals_sent = 0 /\ ~pending
          /\ hpc = "none" /\ handler_runs = 0
    /\ (RELEASE_CHANNEL \in {"Dev", "Nightly", "Preview"} /\ mpc = "done") =>
          (wpc # "none" /\ sigaction_result # "none" /\ rx # "none")

\* C18 witness: the monitor has returned on Stable.
C18_Witness ==
    /\ RELEASE_CHANNEL = "Stable"
    /\ mpc = "done"

\* The steps of the signal handler.
HandlerSteps ==
    \/ HandlerLock
    \/ HandlerClear
    \/ TraceFrame
    \/ TraceEnd
    \/ HandlerUnlock
    \/ HandlerNotify

\* C19: the handler runs to its end without panicking and without waiting
\* on the notification: the sender is in the once-cell before the handler
\* is installed, so the lookup at line 194 finds it, and a send that fails
\* because the receiver is gone is ignored and the handler returns.
C19_HandlerCompletes ==
    /\ hpc # "panicked"
    /\ disposition = "handle_sigusr2" => BACKTRACE_SENDER # Nothing
    /\ hpc \notin {"none", "returned"} =>
          (BACKTRACE_SENDER # Nothing /\ process = "running" /\ ENABLED HandlerSteps)
    /\ hpc = "L194" => ENABLED HandlerNotify
    /\ sent = "error" => (hpc = "returned" /\ ~blocked /\ backtrace_rx = "dropped")

\* C19 witness: the send failed for want of a receiver and the handler
\* returned.
C19_Witness ==
    /\ sent = "error"
    /\ hpc = "returned"
    /\ ~blocked

====
